---- MODULE Spec2Model ----
(***************************************************************************)
(* Model of the spin-precession kernel (src/src/quantum.rs) and of the     *)
(* frame handler that feeds the trace buffer (src/src/main.rs).            *)
(*                                                                         *)
(* Numbers.  The kernel works on f32.  Here a real number is an exact      *)
(* element (a + b*sqrt(3)) / d of Q(sqrt 3) with d a power of two, kept in *)
(* lowest terms, so two reals are equal iff their records are equal.       *)
(* Angles (theta, time, omega*time) are integers counting steps of pi/6;   *)
(* on that grid sin and cos take values in {0, +-1/2, +-sqrt(3)/2, +-1},   *)
(* all of which are exact in Q(sqrt 3).  f32 rounding is not modelled: an  *)
(* agreement "within tolerance" in f32 is an exact equality here.          *)
(***************************************************************************)
EXTENDS Integers, Sequences, FiniteSets, TLC

(***************************************************************************)
(* Bounds of the model                                                     *)
(***************************************************************************)
MaxTheta == 6
MaxStrength == 3
MaxTick == 4
MaxAmp == 1
MaxFrames == 4

VARIABLES fn, args, ret, app, frames

vars == <<fn, args, ret, app, frames>>

(***************************************************************************)
(* Exact real arithmetic in Q(sqrt 3)                                      *)
(***************************************************************************)
RECURSIVE Norm(_, _, _)
Norm(a, b, d) ==
    IF d > 1 /\ a % 2 = 0 /\ b % 2 = 0
    THEN Norm(a \div 2, b \div 2, d \div 2)
    ELSE [a |-> a, b |-> b, d |-> d]

I(n) == [a |-> n, b |-> 0, d |-> 1]

Add(x, y) == Norm(x.a * y.d + y.a * x.d, x.b * y.d + y.b * x.d, x.d * y.d)

Neg(x) == [a |-> -x.a, b |-> -x.b, d |-> x.d]

Sub(x, y) == Add(x, Neg(y))

Mul(x, y) == Norm(x.a * y.a + 3 * x.b * y.b, x.a * y.b + x.b * y.a, x.d * y.d)

Abs(n) == IF n < 0 THEN -n ELSE n

Sgn(n) == IF n < 0 THEN -1 ELSE 1

\* x / y for a divisor y = +-2^k / d (every divisor in quantum.rs is 1, 2 or 4)
Div(x, y) == Norm(Sgn(y.a) * x.a * y.d, Sgn(y.a) * x.b * y.d, x.d * Abs(y.a))

\* f32::cos and f32::sin on the pi/6 grid
Cos(n) ==
    CASE n % 12 = 0 -> [a |-> 1, b |-> 0, d |-> 1]
      [] n % 12 \in {1, 11} -> [a |-> 0, b |-> 1, d |-> 2]
      [] n % 12 \in {2, 10} -> [a |-> 1, b |-> 0, d |-> 2]
      [] n % 12 \in {3, 9} -> [a |-> 0, b |-> 0, d |-> 1]
      [] n % 12 \in {4, 8} -> [a |-> -1, b |-> 0, d |-> 2]
      [] n % 12 \in {5, 7} -> [a |-> 0, b |-> -1, d |-> 2]
      [] n % 12 = 6 -> [a |-> -1, b |-> 0, d |-> 1]

Sin(n) == Cos(n - 3)

\* the f32 product (rate * angle) of a rational rate and a grid angle
Scale(x, n) == (x.a * n) \div x.d

(***************************************************************************)
(* Complex numbers, vectors, operators (nalgebra types of quantum.rs)      *)
(***************************************************************************)
Complex(re, im) == [re |-> re, im |-> im]

CFrom(x) == Complex(x, I(0))

CAdd(x, y) == Complex(Add(x.re, y.re), Add(x.im, y.im))

CSub(x, y) == Complex(Sub(x.re, y.re), Sub(x.im, y.im))

CMul(x, y) ==
    Complex(Sub(Mul(x.re, y.re), Mul(x.im, y.im)),
            Add(Mul(x.re, y.im), Mul(x.im, y.re)))

CConj(x) == Complex(x.re, Neg(x.im))

\* x / y for a real divisor y (psi divides by Complex::from(2.))
CDiv(x, y) == Complex(Div(x.re, y.re), Div(x.im, y.re))

Vector3(x, y, z) == [x |-> x, y |-> y, z |-> z]

SpinState(x, y) == [x |-> x, y |-> y]

Operator(m11, m12, m21, m22) == [m11 |-> m11, m12 |-> m12, m21 |-> m21, m22 |-> m22]

SZ_POSITIVE_STATE == SpinState(Complex(I(1), I(0)), Complex(I(0), I(0)))

(***************************************************************************)
(* quantum.rs                                                              *)
(***************************************************************************)
b_field_swapped(theta, b_field_strength) ==
    Vector3(Mul(Sin(theta), b_field_strength), I(0), Mul(Sin(theta), b_field_strength))

b_field(theta, b_field_strength) ==
    Vector3(Mul(Sin(theta), b_field_strength), Mul(I(0), b_field_strength),
            Mul(Cos(theta), b_field_strength))

H_BAR == 2

SX_OPERATOR ==
    Operator(Complex(I(0), I(0)), Complex(I(1), I(0)),
             Complex(I(1), I(0)), Complex(I(0), I(0)))

SY_OPERATOR_not_hermitian ==
    Operator(Complex(I(0), I(0)), Complex(I(0), I(-1)),
             Complex(I(0), I(-1)), Complex(I(0), I(0)))

SY_OPERATOR ==
    Operator(Complex(I(0), I(0)), Complex(I(0), I(-1)),
             Complex(I(0), I(1)), Complex(I(0), I(0)))

SZ_OPERATOR ==
    Operator(Complex(I(1), I(0)), Complex(I(0), I(0)),
             Complex(I(0), I(0)), Complex(I(-1), I(0)))

\* state.adjoint() * op * state, the 1x1 matrix taken as a scalar
quadratic_form(state, op) ==
    LET r1 == CAdd(CMul(CConj(state.x), op.m11), CMul(CConj(state.y), op.m21))
        r2 == CAdd(CMul(CConj(state.x), op.m12), CMul(CConj(state.y), op.m22))
    IN  CAdd(CMul(r1, state.x), CMul(r2, state.y))

expectation(state, op) == quadratic_form(state, op).re

expi(t) == Complex(Cos(t), Sin(t))

psi_energy(b_field_strength) == Div(Mul(b_field_strength, I(H_BAR)), I(2))

psi_omega_quarter(b_field_strength) == Div(Div(psi_energy(b_field_strength), I(H_BAR)), I(2))

psi_omega(b_field_strength) == Div(psi_energy(b_field_strength), I(H_BAR))

psi_1(theta) == SpinState(CFrom(Add(Cos(theta), I(1))), CFrom(Sin(theta)))

psi_2(theta) == SpinState(CFrom(Sub(Cos(theta), I(1))), CFrom(Sin(theta)))

psi_no_halving(theta, b_field_strength, time) ==
    LET omega == psi_omega(b_field_strength)
        e1 == expi(Scale(omega, time))
        e2 == expi(Scale(Neg(omega), time))
    IN  SpinState(CSub(CMul(psi_1(theta).x, e1), CMul(psi_2(theta).x, e2)),
                  CSub(CMul(psi_1(theta).y, e1), CMul(psi_2(theta).y, e2)))

psi_clock_phase(theta, b_field_strength, time) ==
    LET e1 == expi(time)
        e2 == expi(-time)
    IN  SpinState(CDiv(CSub(CMul(psi_1(theta).x, e1), CMul(psi_2(theta).x, e2)), CFrom(I(2))),
                  CDiv(CSub(CMul(psi_1(theta).y, e1), CMul(psi_2(theta).y, e2)), CFrom(I(2))))

psi(theta, b_field_strength, time) ==
    LET omega == psi_omega(b_field_strength)
        e1 == expi(Scale(omega, time))
        e2 == expi(Scale(Neg(omega), time))
    IN  SpinState(CDiv(CSub(CMul(psi_1(theta).x, e1), CMul(psi_2(theta).x, e2)), CFrom(I(2))),
                  CDiv(CSub(CMul(psi_1(theta).y, e1), CMul(psi_2(theta).y, e2)), CFrom(I(2))))

spin_expectation_xz_swapped(theta, b_field_strength, time) ==
    LET wave == psi(theta, b_field_strength, time)
    IN  Vector3(expectation(wave, SZ_OPERATOR),
                expectation(wave, SY_OPERATOR),
                expectation(wave, SX_OPERATOR))

spin_expectation_sx_only(theta, b_field_strength, time) ==
    LET wave == psi(theta, b_field_strength, time)
    IN  Vector3(expectation(wave, SX_OPERATOR), I(0), I(0))

spin_expectation(theta, b_field_strength, time) ==
    LET wave == psi(theta, b_field_strength, time)
    IN  Vector3(expectation(wave, SX_OPERATOR),
                expectation(wave, SY_OPERATOR),
                expectation(wave, SZ_OPERATOR))

spin_expectation_analytical_cos_theta(theta, b_field_strength, time) ==
    LET energy == Div(Mul(b_field_strength, I(H_BAR)), I(1))
        omega == Div(energy, I(H_BAR))
        x == Div(Mul(Mul(Div(I(H_BAR), I(2)), Cos(2 * theta)),
                     Sub(I(1), Mul(I(2), Cos(Scale(Neg(omega), time))))),
                 I(2))
    IN  Vector3(x, I(0), I(0))

spin_expectation_analytical(theta, b_field_strength, time) ==
    LET energy == Div(Mul(b_field_strength, I(H_BAR)), I(1))
        omega == Div(energy, I(H_BAR))
        x == Div(Mul(Mul(Div(I(H_BAR), I(2)), Sin(2 * theta)),
                     Sub(I(1), Mul(I(2), Cos(Scale(Neg(omega), time))))),
                 I(2))
    IN  Vector3(x, I(0), I(0))

(***************************************************************************)
(* main.rs: TemplateApp.  The f32 fields theta, time and b_field_strength  *)
(* count hundredths (the DragValue step is 1e-2); anim_speed is a whole    *)
(* factor.  A traced point is kept as the arguments of the spin_expectation*)
(* call that produced it, stamped with the number of the frame (the stamp  *)
(* is not program state; it identifies the sample).  The initial_state     *)
(* that main.rs passes along is not a parameter of quantum.rs's functions  *)
(* and never changes.                                                      *)
(***************************************************************************)
FRAC_PI_4 == 79

FRAC_PI_2 == 157

Default ==
    [b_field_strength |-> 90,
     theta |-> 17,
     initial_state |-> SZ_POSITIVE_STATE,
     time |-> 0,
     play |-> TRUE,
     anim_speed |-> 1,
     trace |-> TRUE,
     tracing |-> <<>>,
     show_psi_plot |-> TRUE,
     increment_angle |-> FALSE,
     max_trace_points |-> 600]

\* ctx.input(|r| r.stable_dt), in hundredths of a second
StableDts == {2}

Event(kind, value) == [kind |-> kind, value |-> value]

Buttons ==
    {"none", "toggle_play", "toggle_increment_angle", "toggle_trace",
     "toggle_show_psi_plot", "theta_minus_pi_4", "theta_plus_pi_4",
     "theta_minus_pi_2", "theta_plus_pi_2", "zero_angle", "reset_time",
     "reset_angle", "reset_trace", "reset_all", "fast_preset"}

Events ==
    {Event(k, 0) : k \in Buttons}
        \cup {Event("drag_time", 50), Event("drag_theta", -17),
              Event("drag_b_field_strength", -90), Event("drag_anim_speed", 0)}
        \cup {Event("drag_max_trace_points", n) : n \in 0 .. 2}

\* update, lines 116-124
animate(self, stable_dt) ==
    IF self.play
    THEN LET delta == stable_dt * self.anim_speed
         IN  IF self.increment_angle
             THEN [self EXCEPT !.theta = @ + delta]
             ELSE [self EXCEPT !.time = @ + delta]
    ELSE self

checked_sub(a, b) == IF a >= b THEN a - b ELSE -1

unwrap_or(v, default) == IF v = -1 THEN default ELSE v

\* update, lines 126-147
record_trace(self, frame) ==
    IF self.trace
    THEN LET spin_vector ==
                 [frame |-> frame, theta |-> self.theta,
                  b_field_strength |-> self.b_field_strength, time |-> self.time]
             idx == unwrap_or(checked_sub(Len(self.tracing), self.max_trace_points), 0)
             kept == IF Len(self.tracing) > self.max_trace_points
                     THEN SubSeq(self.tracing, idx + 1, Len(self.tracing))
                     ELSE self.tracing
         IN  [self EXCEPT !.tracing = Append(kept, spin_vector)]
    ELSE [self EXCEPT !.tracing = <<>>]

settings_panel(self, ev) ==
    CASE ev.kind = "drag_time" -> [self EXCEPT !.time = ev.value]
      [] ev.kind = "drag_theta" -> [self EXCEPT !.theta = ev.value]
      [] ev.kind = "drag_b_field_strength" -> [self EXCEPT !.b_field_strength = ev.value]
      [] ev.kind = "toggle_play" -> [self EXCEPT !.play = ~@]
      [] ev.kind = "drag_anim_speed" -> [self EXCEPT !.anim_speed = ev.value]
      [] ev.kind = "toggle_increment_angle" -> [self EXCEPT !.increment_angle = ~@]
      [] ev.kind = "toggle_trace" -> [self EXCEPT !.trace = ~@]
      [] ev.kind = "toggle_show_psi_plot" -> [self EXCEPT !.show_psi_plot = ~@]
      [] ev.kind = "theta_minus_pi_4" -> [self EXCEPT !.theta = @ - FRAC_PI_4]
      [] ev.kind = "theta_plus_pi_4" -> [self EXCEPT !.theta = @ + FRAC_PI_4]
      [] ev.kind = "theta_minus_pi_2" -> [self EXCEPT !.theta = @ - FRAC_PI_2]
      [] ev.kind = "theta_plus_pi_2" -> [self EXCEPT !.theta = @ + FRAC_PI_2]
      [] ev.kind = "zero_angle" -> [self EXCEPT !.theta = 0]
      [] ev.kind = "reset_time" -> [self EXCEPT !.time = Default.time]
      [] ev.kind = "reset_angle" -> [self EXCEPT !.theta = Default.theta]
      [] ev.kind = "reset_trace" -> [self EXCEPT !.tracing = <<>>]
      [] ev.kind = "reset_all" -> Default
      [] ev.kind = "fast_preset" -> [self EXCEPT !.anim_speed = 15, !.max_trace_points = 100]
      [] ev.kind = "drag_max_trace_points" -> [self EXCEPT !.max_trace_points = ev.value]
      [] OTHER -> self

\* one frame: TemplateApp::update; the panels it shows only read the state
update(self, stable_dt, ev, frame) ==
    settings_panel(record_trace(animate(self, stable_dt), frame), ev)

Update ==
    /\ frames < MaxFrames
    /\ \E stable_dt \in StableDts, ev \in Events :
          app' = update(app, stable_dt, ev, frames + 1)
    /\ frames' = frames + 1
    /\ UNCHANGED <<fn, args, ret>>

(***************************************************************************)
(* Calls into the kernel.  Every function of quantum.rs is pure and total, *)
(* so a call is one step: it records the function, its arguments and its   *)
(* result.  Inputs are drawn from the grids below.                         *)
(***************************************************************************)
Thetas == -MaxTheta .. MaxTheta

Strengths == {I(n) : n \in -MaxStrength .. MaxStrength}

Times == {2 * k : k \in -MaxTick .. MaxTick}

Amplitudes == {Complex(I(p), I(q)) : p \in -MaxAmp .. MaxAmp, q \in -MaxAmp .. MaxAmp}

States == {SpinState(u, v) : u \in Amplitudes, v \in Amplitudes}

Operators == {SX_OPERATOR, SY_OPERATOR, SZ_OPERATOR}

NoArgs ==
    [theta |-> 0, b_field_strength |-> I(0), time |-> 0,
     state |-> SZ_POSITIVE_STATE, op |-> SZ_OPERATOR]

Args(theta, b_field_strength, time) ==
    [NoArgs EXCEPT !.theta = theta, !.b_field_strength = b_field_strength, !.time = time]

Call_b_field ==
    /\ fn = "none"
    /\ \E theta \in Thetas, s \in Strengths :
          /\ args' = Args(theta, s, 0)
          /\ ret' = b_field(theta, s)
    /\ fn' = "b_field"
    /\ UNCHANGED <<app, frames>>

Call_psi ==
    /\ fn = "none"
    /\ \E theta \in Thetas, s \in Strengths, t \in Times :
          /\ args' = Args(theta, s, t)
          /\ ret' = psi(theta, s, t)
    /\ fn' = "psi"
    /\ UNCHANGED <<app, frames>>

Call_spin_expectation ==
    /\ fn = "none"
    /\ \E theta \in Thetas, s \in Strengths, t \in Times :
          /\ args' = Args(theta, s, t)
          /\ ret' = spin_expectation(theta, s, t)
    /\ fn' = "spin_expectation"
    /\ UNCHANGED <<app, frames>>

Call_spin_expectation_analytical ==
    /\ fn = "none"
    /\ \E theta \in Thetas, s \in Strengths, t \in Times :
          /\ args' = Args(theta, s, t)
          /\ ret' = spin_expectation_analytical(theta, s, t)
    /\ fn' = "spin_expectation_analytical"
    /\ UNCHANGED <<app, frames>>

Call_expectation ==
    /\ fn = "none"
    /\ \E state \in States, op \in Operators :
          /\ args' = [NoArgs EXCEPT !.state = state, !.op = op]
          /\ ret' = expectation(state, op)
    /\ fn' = "expectation"
    /\ UNCHANGED <<app, frames>>

Return ==
    /\ fn # "none"
    /\ fn' = "none"
    /\ args' = NoArgs
    /\ ret' = I(0)
    /\ UNCHANGED <<app, frames>>

Init ==
    /\ fn = "none"
    /\ args = NoArgs
    /\ ret = I(0)
    /\ app = Default
    /\ frames = 0

Next ==
    \/ Call_b_field
    \/ Call_psi
    \/ Call_spin_expectation
    \/ Call_spin_expectation_analytical
    \/ Call_expectation
    \/ Return

Spec == Init /\ [][Next]_vars

(***************************************************************************)
(* Properties of the kernel                                                *)
(***************************************************************************)
Dot(u, v) == Add(Add(Mul(u.x, v.x), Mul(u.y, v.y)), Mul(u.z, v.z))

AbsSq(c) == Add(Mul(c.re, c.re), Mul(c.im, c.im))

\* C1: b_field(theta, strength) is (sin(theta)*strength, 0, cos(theta)*strength)
\* for every theta and every strength, negative and zero included: its y
\* component is 0 and its squared magnitude is strength^2.
C1_b_field ==
    fn = "b_field" =>
        /\ ret = Vector3(Mul(Sin(args.theta), args.b_field_strength), I(0),
                         Mul(Cos(args.theta), args.b_field_strength))
        /\ ret.y = I(0)
        /\ Dot(ret, ret) = Mul(args.b_field_strength, args.b_field_strength)

C1_witness ==
    /\ fn = "b_field"
    /\ args.b_field_strength = I(-2)
    /\ args.theta = 1
    /\ ret = Vector3(I(-1), I(0), [a |-> 0, b |-> -1, d |-> 1])

\* C2: for fixed theta and strength the magnitude of spin_expectation is the
\* same at every time t.
C2_constant_magnitude ==
    fn = "spin_expectation" =>
        \A t \in Times :
            Dot(ret, ret) =
                Dot(spin_expectation(args.theta, args.b_field_strength, t),
                    spin_expectation(args.theta, args.b_field_strength, t))

C2_witness ==
    /\ fn = "spin_expectation"
    /\ args.theta = 2
    /\ args.b_field_strength = I(1)
    /\ args.time = 2
    /\ ret # spin_expectation(args.theta, args.b_field_strength, 0)

\* the period 2*pi/omega (2*pi is 12 steps of pi/6) with
\* omega = strength * H_BAR / (2 * H_BAR)
ClaimedOmega(s) == Div(Mul(s, I(H_BAR)), Mul(I(2), I(H_BAR)))

PeriodOnGrid(s) ==
    /\ s # I(0)
    /\ ClaimedOmega(s).b = 0
    /\ (12 * ClaimedOmega(s).d) % Abs(ClaimedOmega(s).a) = 0
    /\ ((12 * ClaimedOmega(s).d) \div Abs(ClaimedOmega(s).a)) % 2 = 0

Period(s) ==
    Sgn(ClaimedOmega(s).a) * ((12 * ClaimedOmega(s).d) \div Abs(ClaimedOmega(s).a))

\* C3: for strength # 0, psi and spin_expectation take the same value at t
\* and at t + 2*pi/omega, omega = strength / 2.
C3_periodic ==
    PeriodOnGrid(args.b_field_strength) =>
        /\ fn = "psi" =>
              psi(args.theta, args.b_field_strength,
                  args.time + Period(args.b_field_strength)) = ret
        /\ fn = "spin_expectation" =>
              spin_expectation(args.theta, args.b_field_strength,
                               args.time + Period(args.b_field_strength)) = ret

C3_witness ==
    /\ fn = "psi"
    /\ args.b_field_strength = I(3)
    /\ Period(args.b_field_strength) = 8
    /\ args.theta = 1
    /\ args.time = 2
    /\ ret # psi(args.theta, args.b_field_strength, args.time + 4)

\* C4: with strength = 0, psi(theta, 0, t) is the same state at every t.
C4_zero_strength ==
    (fn = "psi" /\ args.b_field_strength = I(0)) =>
        \A t \in Times : psi(args.theta, I(0), t) = ret

C4_witness ==
    /\ fn = "psi"
    /\ args.b_field_strength = I(0)
    /\ args.time = 4
    /\ args.theta = 2

\* C5: the x component of spin_expectation_analytical equals the x component
\* of spin_expectation for every theta, strength and t.
C5_analytical_agrees ==
    fn = "spin_expectation_analytical" =>
        ret.x = spin_expectation(args.theta, args.b_field_strength, args.time).x

\* C6: at theta = pi/2 (3 steps of pi/6) the x component of spin_expectation equals the x
\* component of spin_expectation_analytical, for every strength and t.
C6_analytical_agrees_at_right_angle ==
    (fn = "spin_expectation_analytical" /\ args.theta = 3) =>
        ret.x = spin_expectation(args.theta, args.b_field_strength, args.time).x

C6_witness ==
    /\ fn = "spin_expectation_analytical"
    /\ args.theta = 3
    /\ args.b_field_strength = I(1)
    /\ args.time = 2

\* C7: at theta = 0, strength = 1, t = 0: b_field is (0,0,1), psi_1 = (2,0),
\* psi_2 = (0,0), psi = (1,0) and spin_expectation = (0,0,1).
C7_scenario ==
    (fn = "spin_expectation" /\ args.theta = 0 /\ args.b_field_strength = I(1)
        /\ args.time = 0) =>
        /\ b_field(0, I(1)) = Vector3(I(0), I(0), I(1))
        /\ psi_1(0) = SpinState(CFrom(I(2)), CFrom(I(0)))
        /\ psi_2(0) = SpinState(CFrom(I(0)), CFrom(I(0)))
        /\ psi(0, I(1), 0) = SpinState(CFrom(I(1)), CFrom(I(0)))
        /\ ret = Vector3(I(0), I(0), I(1))

C7_witness ==
    /\ fn = "spin_expectation"
    /\ args.theta = 0
    /\ args.b_field_strength = I(1)
    /\ args.time = 0

Adjoint(op) == Operator(CConj(op.m11), CConj(op.m21), CConj(op.m12), CConj(op.m22))

\* C8: SX_OPERATOR, SY_OPERATOR and SZ_OPERATOR equal their conjugate
\* transposes, SZ is diag(+1, -1), and for every state, normalized or not,
\* state-adjoint * op * state has imaginary part 0, so expectation returns
\* the whole value.
C8_quadratic_form_real ==
    fn = "expectation" =>
        /\ \A op \in {SX_OPERATOR, SY_OPERATOR, SZ_OPERATOR} :
              /\ Adjoint(op) = op
              /\ quadratic_form(args.state, op).im = I(0)
        /\ SZ_OPERATOR = Operator(CFrom(I(1)), CFrom(I(0)), CFrom(I(0)), CFrom(I(-1)))
        /\ CFrom(ret) = quadratic_form(args.state, args.op)

C8_witness ==
    /\ fn = "expectation"
    /\ args.op = SY_OPERATOR
    /\ args.state = SpinState(Complex(I(1), I(0)), Complex(I(1), I(1)))
    /\ ret = I(2)

\* C9: every state psi returns is normalized: |a|^2 + |b|^2 = 1.
C9_normalized ==
    fn = "psi" => Add(AbsSq(ret.x), AbsSq(ret.y)) = I(1)

C9_witness ==
    /\ fn = "psi"
    /\ args.theta = 1
    /\ args.b_field_strength = I(1)
    /\ args.time = 2
    /\ psi_1(args.theta) # psi_2(args.theta)
    /\ ret.x.im # I(0)

AppNext == Update

AppSpec == Init /\ [][AppNext]_vars

(***************************************************************************)
(* Property of the trace buffer                                            *)
(***************************************************************************)
\* C10: at the end of every update the number of points in tracing does not
\* exceed max_trace_points, and the points kept are the most recent samples
\* in time order.
C10_trace_bounded ==
    /\ Len(app.tracing) <= app.max_trace_points
    /\ \A i \in 1 .. Len(app.tracing) :
          app.tracing[i].frame = frames - Len(app.tracing) + i

====
